---- MODULE Spec2Model ----
(***************************************************************************)
(* CFreeTDS.h (Sources/CFreeTDS/include/CFreeTDS.h) as the C preprocessor  *)
(* sees it.  The header is data (Header, one record per source line); the  *)
(* actions are the preprocessor's steps over that data: conditional        *)
(* groups, #define, #pragma once and #include resolution against the files *)
(* installed on the build machine.  A translation unit includes the header *)
(* one or more times.                                                      *)
(***************************************************************************)
EXTENDS Integers, Sequences, FiniteSets, TLC

\* How many times the translation unit includes CFreeTDS.h (directly or
\* through other headers).
MaxIncludes == 2

---------------------------------------------------------------------------
\* The text of the header

UsrLocalPrefix == "/usr/local/opt/freetds/include/"
HomebrewPrefix == "/opt/homebrew/opt/freetds/include/"

\* A source line: op is the directive ("text" for a line that is not a
\* directive; arg = "" for a blank one), arg its macro or file name, and for
\* #include, form is "quote" or "angle" and dir the directory written in
\* front of the file name ("" when none is written).
Line(op, form, dir, arg) == [op |-> op, form |-> form, dir |-> dir, arg |-> arg]

\* Variants of the header, each one slip away from it.

\* line 7 tests the architecture the wrong way round
HeaderSwappedArch ==
  << Line("ifndef", "", "", "CFREETDS_H"),
     Line("define", "", "", "CFREETDS_H"),
     Line("text", "", "", ""),
     Line("pragma", "", "", "once"),
     Line("text", "", "", ""),
     Line("ifdef", "", "", "__APPLE__"),
     Line("ifndef", "", "", "__x86_64__"),
     Line("include", "quote", UsrLocalPrefix, "sybdb.h"),
     Line("include", "quote", UsrLocalPrefix, "sybfront.h"),
     Line("else", "", "", ""),
     Line("include", "quote", HomebrewPrefix, "sybdb.h"),
     Line("include", "quote", HomebrewPrefix, "sybfront.h"),
     Line("endif", "", "", ""),
     Line("else", "", "", ""),
     Line("include", "angle", "", "sybdb.h"),
     Line("include", "angle", "", "sybfront.h"),
     Line("endif", "", "", ""),
     Line("text", "", "", ""),
     Line("endif", "", "", "") >>

\* line 6 tests the operating system the wrong way round
HeaderAppleTestInverted ==
  << Line("ifndef", "", "", "CFREETDS_H"),
     Line("define", "", "", "CFREETDS_H"),
     Line("text", "", "", ""),
     Line("pragma", "", "", "once"),
     Line("text", "", "", ""),
     Line("ifndef", "", "", "__APPLE__"),
     Line("ifdef", "", "", "__x86_64__"),
     Line("include", "quote", UsrLocalPrefix, "sybdb.h"),
     Line("include", "quote", UsrLocalPrefix, "sybfront.h"),
     Line("else", "", "", ""),
     Line("include", "quote", HomebrewPrefix, "sybdb.h"),
     Line("include", "quote", HomebrewPrefix, "sybfront.h"),
     Line("endif", "", "", ""),
     Line("else", "", "", ""),
     Line("include", "angle", "", "sybdb.h"),
     Line("include", "angle", "", "sybfront.h"),
     Line("endif", "", "", ""),
     Line("text", "", "", ""),
     Line("endif", "", "", "") >>

\* line 12 keeps the prefix of line 9
HeaderHomebrewTypo ==
  << Line("ifndef", "", "", "CFREETDS_H"),
     Line("define", "", "", "CFREETDS_H"),
     Line("text", "", "", ""),
     Line("pragma", "", "", "once"),
     Line("text", "", "", ""),
     Line("ifdef", "", "", "__APPLE__"),
     Line("ifdef", "", "", "__x86_64__"),
     Line("include", "quote", UsrLocalPrefix, "sybdb.h"),
     Line("include", "quote", UsrLocalPrefix, "sybfront.h"),
     Line("else", "", "", ""),
     Line("include", "quote", HomebrewPrefix, "sybdb.h"),
     Line("include", "quote", UsrLocalPrefix, "sybfront.h"),
     Line("endif", "", "", ""),
     Line("else", "", "", ""),
     Line("include", "angle", "", "sybdb.h"),
     Line("include", "angle", "", "sybfront.h"),
     Line("endif", "", "", ""),
     Line("text", "", "", ""),
     Line("endif", "", "", "") >>

\* lines 7-12 test for arm64 instead of x86_64
HeaderArm64Test ==
  << Line("ifndef", "", "", "CFREETDS_H"),
     Line("define", "", "", "CFREETDS_H"),
     Line("text", "", "", ""),
     Line("pragma", "", "", "once"),
     Line("text", "", "", ""),
     Line("ifdef", "", "", "__APPLE__"),
     Line("ifdef", "", "", "__aarch64__"),
     Line("include", "quote", HomebrewPrefix, "sybdb.h"),
     Line("include", "quote", HomebrewPrefix, "sybfront.h"),
     Line("else", "", "", ""),
     Line("include", "quote", UsrLocalPrefix, "sybdb.h"),
     Line("include", "quote", UsrLocalPrefix, "sybfront.h"),
     Line("endif", "", "", ""),
     Line("else", "", "", ""),
     Line("include", "angle", "", "sybdb.h"),
     Line("include", "angle", "", "sybfront.h"),
     Line("endif", "", "", ""),
     Line("text", "", "", ""),
     Line("endif", "", "", "") >>

\* a macro for the prefix is defined in the Intel branch
HeaderWithPrefixMacro ==
  << Line("ifndef", "", "", "CFREETDS_H"),
     Line("define", "", "", "CFREETDS_H"),
     Line("text", "", "", ""),
     Line("pragma", "", "", "once"),
     Line("text", "", "", ""),
     Line("ifdef", "", "", "__APPLE__"),
     Line("ifdef", "", "", "__x86_64__"),
     Line("define", "", "", "FREETDS_PREFIX"),
     Line("include", "quote", UsrLocalPrefix, "sybdb.h"),
     Line("include", "quote", UsrLocalPrefix, "sybfront.h"),
     Line("else", "", "", ""),
     Line("include", "quote", HomebrewPrefix, "sybdb.h"),
     Line("include", "quote", HomebrewPrefix, "sybfront.h"),
     Line("endif", "", "", ""),
     Line("else", "", "", ""),
     Line("include", "angle", "", "sybdb.h"),
     Line("include", "angle", "", "sybfront.h"),
     Line("endif", "", "", ""),
     Line("text", "", "", ""),
     Line("endif", "", "", "") >>

\* line 2 is missing: the guard is tested but never defined
HeaderGuardNotDefined ==
  << Line("ifndef", "", "", "CFREETDS_H"),
     Line("text", "", "", ""),
     Line("text", "", "", ""),
     Line("pragma", "", "", "once"),
     Line("text", "", "", ""),
     Line("ifdef", "", "", "__APPLE__"),
     Line("ifdef", "", "", "__x86_64__"),
     Line("include", "quote", UsrLocalPrefix, "sybdb.h"),
     Line("include", "quote", UsrLocalPrefix, "sybfront.h"),
     Line("else", "", "", ""),
     Line("include", "quote", HomebrewPrefix, "sybdb.h"),
     Line("include", "quote", HomebrewPrefix, "sybfront.h"),
     Line("endif", "", "", ""),
     Line("else", "", "", ""),
     Line("include", "angle", "", "sybdb.h"),
     Line("include", "angle", "", "sybfront.h"),
     Line("endif", "", "", ""),
     Line("text", "", "", ""),
     Line("endif", "", "", "") >>

Header ==
  << Line("ifndef", "", "", "CFREETDS_H"),                    \* line 1
     Line("define", "", "", "CFREETDS_H"),                    \* line 2
     Line("text", "", "", ""),                                \* line 3
     Line("pragma", "", "", "once"),                          \* line 4
     Line("text", "", "", ""),                                \* line 5
     Line("ifdef", "", "", "__APPLE__"),                      \* line 6
     Line("ifdef", "", "", "__x86_64__"),                     \* line 7
     Line("include", "quote", UsrLocalPrefix, "sybdb.h"),     \* line 8
     Line("include", "quote", UsrLocalPrefix, "sybfront.h"),  \* line 9
     Line("else", "", "", ""),                                \* line 10
     Line("include", "quote", HomebrewPrefix, "sybdb.h"),     \* line 11
     Line("include", "quote", HomebrewPrefix, "sybfront.h"),  \* line 12
     Line("endif", "", "", ""),                               \* line 13
     Line("else", "", "", ""),                                \* line 14
     Line("include", "angle", "", "sybdb.h"),                 \* line 15
     Line("include", "angle", "", "sybfront.h"),              \* line 16
     Line("endif", "", "", ""),                               \* line 17
     Line("text", "", "", ""),                                \* line 18
     Line("endif", "", "", "") >>                             \* line 19

GuardMacro == "CFREETDS_H"
VendorHeaders == {"sybdb.h", "sybfront.h"}

---------------------------------------------------------------------------
\* The build: target, toolchain and installed files

OSes == {"macOS", "iOS", "Linux"}
AppleOSes == {"macOS", "iOS"}
Archs == {"x86_64", "arm64", "i386"}

\* The directories searched, in order, for #include <...>.
SystemIncludePath == << "/usr/include/", "/usr/local/include/" >>

Range(s) == {s[i] : i \in DOMAIN s}
Dirs == {UsrLocalPrefix, HomebrewPrefix} \cup Range(SystemIncludePath)

\* The operating-system and architecture macros the compiler predefines for
\* a target: __APPLE__ on every Apple operating system (not macOS alone),
\* __x86_64__ and __aarch64__ by architecture.  The translation unit defines
\* none of them, nor CFREETDS_H, itself.
PredefinedMacros(o, a) ==
  (IF o \in AppleOSes THEN {"__APPLE__"} ELSE {})
    \cup (IF a = "x86_64" THEN {"__x86_64__"} ELSE {})
    \cup (IF a = "arm64" THEN {"__aarch64__"} ELSE {})

VARIABLES
  os, arch,        \* the build target
  installed,       \* the vendor headers on disk: a set of <<dir, name>>
  pragmaOnce,      \* whether the compiler implements #pragma once
  macros,          \* macros currently defined in the translation unit
  ownMacros,       \* macros defined by directives of CFreeTDS.h itself
  ownDecls,        \* tokens of non-directive lines of CFreeTDS.h itself
  onceSeen,        \* CFreeTDS.h is marked include-once
  status,          \* "idle", "scanning", "failed" or "ok"
  pc,              \* the line of Header being read while scanning
  stack,           \* the open conditional groups, innermost last
  count,           \* inclusions of CFreeTDS.h begun so far
  attempted,       \* the #include directives executed, in order
  included         \* the files entered, in order: <<dir, name>>

vars == << os, arch, installed, pragmaOnce, macros, ownMacros, ownDecls,
           onceSeen, status, pc, stack, count, attempted, included >>

build == << os, arch, installed, pragmaOnce >>

Init ==
  /\ os \in OSes
  /\ arch \in Archs
  /\ installed \in SUBSET (Dirs \X VendorHeaders)
  /\ pragmaOnce \in BOOLEAN
  /\ macros = PredefinedMacros(os, arch)
  /\ ownMacros = {}
  /\ ownDecls = {}
  /\ onceSeen = FALSE
  /\ status = "idle"
  /\ pc = 0
  /\ stack = << >>
  /\ count = 0
  /\ attempted = << >>
  /\ included = << >>

---------------------------------------------------------------------------
\* Conditional groups

\* Whether the lines being read are in a group that is compiled.
Active == stack = << >> \/ stack[Len(stack)].active

Scanning == status = "scanning" /\ pc \in DOMAIN Header
Cur == Header[pc]

\* A new group: compiled when the enclosing one is and the test holds.
Group(test) == [outer |-> Active, taken |-> Active /\ test, active |-> Active /\ test]

Pop(s) == SubSeq(s, 1, Len(s) - 1)

\* #else: the alternative is compiled when the enclosing group is and no
\* earlier alternative of this group was.
ElseOf(g) == [outer |-> g.outer, taken |-> TRUE, active |-> g.outer /\ ~g.taken]

\* The file an #include directive names, in the directory it is found in, or
\* << >> when no such file exists.  A quoted absolute name is opened as
\* written; an angle name is looked up along SystemIncludePath.
RECURSIVE Search(_, _, _)
Search(path, name, i) ==
  IF i > Len(path) THEN << >>
  ELSE IF << path[i], name >> \in installed THEN << path[i], name >>
  ELSE Search(path, name, i + 1)

\* Resolve, with a quoted name that is not found looked up by its file name
\* along SystemIncludePath.
ResolveWithFallback(l) ==
  IF l.form = "quote" /\ << l.dir, l.arg >> \in installed
    THEN << l.dir, l.arg >>
    ELSE Search(SystemIncludePath, l.arg, 1)

Resolve(l) ==
  IF l.form = "quote"
    THEN IF << l.dir, l.arg >> \in installed THEN << l.dir, l.arg >> ELSE << >>
    ELSE Search(SystemIncludePath, l.arg, 1)

---------------------------------------------------------------------------
\* The translation unit

\* #include "CFreeTDS.h": the file is opened and read from its first line.
IncludeHeader ==
  /\ status = "idle" /\ count < MaxIncludes /\ ~onceSeen
  /\ count' = count + 1
  /\ status' = "scanning"
  /\ pc' = 1
  /\ stack' = << >>
  /\ UNCHANGED << build, macros, ownMacros, ownDecls, onceSeen, attempted, included >>

\* #include "CFreeTDS.h" of a file marked include-once: not opened again.
IncludeSkipped ==
  /\ status = "idle" /\ count < MaxIncludes /\ onceSeen
  /\ count' = count + 1
  /\ UNCHANGED << build, macros, ownMacros, ownDecls, onceSeen, status, pc,
                  stack, attempted, included >>

\* End of the translation unit.
FinishTU ==
  /\ status = "idle" /\ count >= 1
  /\ status' = "ok"
  /\ UNCHANGED << build, macros, ownMacros, ownDecls, onceSeen, pc, stack,
                  count, attempted, included >>

---------------------------------------------------------------------------
\* The preprocessor's steps over the header

StepIfdef ==
  /\ Scanning /\ Cur.op = "ifdef"
  /\ stack' = Append(stack, Group(Cur.arg \in macros))
  /\ pc' = pc + 1
  /\ UNCHANGED << build, macros, ownMacros, ownDecls, onceSeen, status, count,
                  attempted, included >>

StepIfndef ==
  /\ Scanning /\ Cur.op = "ifndef"
  /\ stack' = Append(stack, Group(Cur.arg \notin macros))
  /\ pc' = pc + 1
  /\ UNCHANGED << build, macros, ownMacros, ownDecls, onceSeen, status, count,
                  attempted, included >>

StepElse ==
  /\ Scanning /\ Cur.op = "else"
  /\ IF stack = << >>
       THEN /\ status' = "failed"
            /\ UNCHANGED << stack, pc >>
       ELSE /\ stack' = [stack EXCEPT ![Len(stack)] = ElseOf(@)]
            /\ pc' = pc + 1
            /\ UNCHANGED status
  /\ UNCHANGED << build, macros, ownMacros, ownDecls, onceSeen, count,
                  attempted, included >>

StepEndif ==
  /\ Scanning /\ Cur.op = "endif"
  /\ IF stack = << >>
       THEN /\ status' = "failed"
            /\ UNCHANGED << stack, pc >>
       ELSE /\ stack' = Pop(stack)
            /\ pc' = pc + 1
            /\ UNCHANGED status
  /\ UNCHANGED << build, macros, ownMacros, ownDecls, onceSeen, count,
                  attempted, included >>

StepDefine ==
  /\ Scanning /\ Cur.op = "define" /\ Active
  /\ macros' = macros \cup {Cur.arg}
  /\ ownMacros' = ownMacros \cup {Cur.arg}
  /\ pc' = pc + 1
  /\ UNCHANGED << build, ownDecls, onceSeen, status, stack, count, attempted,
                  included >>

\* #pragma once marks the file; a compiler without it ignores the pragma.
StepPragma ==
  /\ Scanning /\ Cur.op = "pragma" /\ Active
  /\ onceSeen' = (onceSeen \/ (Cur.arg = "once" /\ pragmaOnce))
  /\ pc' = pc + 1
  /\ UNCHANGED << build, macros, ownMacros, ownDecls, status, stack, count,
                  attempted, included >>

StepText ==
  /\ Scanning /\ Cur.op = "text" /\ Active
  /\ ownDecls' = (IF Cur.arg = "" THEN ownDecls ELSE ownDecls \cup {Cur.arg})
  /\ pc' = pc + 1
  /\ UNCHANGED << build, macros, ownMacros, onceSeen, status, stack, count,
                  attempted, included >>

\* #include of a file that exists: the file is entered.
StepInclude ==
  /\ Scanning /\ Cur.op = "include" /\ Active
  /\ Resolve(Cur) # << >>
  /\ attempted' = Append(attempted, Cur)
  /\ included' = Append(included, Resolve(Cur))
  /\ pc' = pc + 1
  /\ UNCHANGED << build, macros, ownMacros, ownDecls, onceSeen, status, stack,
                  count >>

\* StepIncludeMissing, with the missing file reported and reading continued.
StepIncludeMissingContinues ==
  /\ Scanning /\ Cur.op = "include" /\ Active
  /\ Resolve(Cur) = << >>
  /\ attempted' = Append(attempted, Cur)
  /\ pc' = pc + 1
  /\ UNCHANGED << build, macros, ownMacros, ownDecls, onceSeen, status, stack,
                  count, included >>

\* #include of a file that does not exist: a fatal error, compilation stops.
StepIncludeMissing ==
  /\ Scanning /\ Cur.op = "include" /\ Active
  /\ Resolve(Cur) = << >>
  /\ attempted' = Append(attempted, Cur)
  /\ status' = "failed"
  /\ UNCHANGED << build, macros, ownMacros, ownDecls, onceSeen, pc, stack,
                  count, included >>

\* In a skipped group only the conditional directives are processed.
SkipLine ==
  /\ Scanning /\ ~Active
  /\ Cur.op \in {"define", "pragma", "text", "include"}
  /\ pc' = pc + 1
  /\ UNCHANGED << build, macros, ownMacros, ownDecls, onceSeen, status, stack,
                  count, attempted, included >>

\* End of the header: back to the including file.
EndOfFile ==
  /\ status = "scanning" /\ pc = Len(Header) + 1
  /\ status' = (IF stack = << >> THEN "idle" ELSE "failed")
  /\ UNCHANGED << build, macros, ownMacros, ownDecls, onceSeen, pc, stack,
                  count, attempted, included >>

Next ==
  \/ IncludeHeader
  \/ IncludeSkipped
  \/ FinishTU
  \/ StepIfdef
  \/ StepIfndef
  \/ StepElse
  \/ StepEndif
  \/ StepDefine
  \/ StepPragma
  \/ StepText
  \/ StepInclude
  \/ StepIncludeMissing
  \/ SkipLine
  \/ EndOfFile

Spec == Init /\ [][Next]_vars

---------------------------------------------------------------------------
\* Vocabulary of the properties

DefaultPath == "default include path"

\* The location an #include directive names, and the location of a file.
Location(l) == IF l.form = "quote" THEN l.dir ELSE DefaultPath
FileLocation(f) == IF f[1] \in Range(SystemIncludePath) THEN DefaultPath ELSE f[1]

SelectedLocations == {Location(attempted[i]) : i \in DOMAIN attempted}
TakenFrom == {FileLocation(included[i]) : i \in DOMAIN included}
TakenNames == {included[i][2] : i \in DOMAIN included}

\* Both vendor headers are installed at a location.
InstalledAt(loc) ==
  \A h \in VendorHeaders :
    IF loc = DefaultPath
      THEN \E d \in Range(SystemIncludePath) : << d, h >> \in installed
      ELSE << loc, h >> \in installed

Defines(m) == m \in PredefinedMacros(os, arch)

\* The first inclusion of the header has been read to its end.
FirstPassDone == count >= 1 /\ status \in {"idle", "ok"}
\* The first inclusion has been read to its end or has stopped the build.
FirstPassOver == count >= 1 /\ status \in {"idle", "ok", "failed"}

\* Every #include executed names loc, every file entered lies there, and a
\* completed inclusion has entered sybdb.h and then sybfront.h.
OnlyFrom(loc) ==
  /\ SelectedLocations \subseteq {loc}
  /\ TakenFrom \subseteq {loc}
  /\ FirstPassDone =>
       /\ Len(included) = 2
       /\ included[1][2] = "sybdb.h" /\ included[2][2] = "sybfront.h"
       /\ TakenFrom = {loc}

\* The (operating system, architecture) combinations the header is written
\* for, and the location each one's vendor headers are expected at.
Supported == (os = "macOS" /\ arch \in {"x86_64", "arm64"}) \/ os \notin AppleOSes
ExpectedLocation ==
  IF os = "macOS" /\ arch = "x86_64" THEN UsrLocalPrefix
  ELSE IF os = "macOS" /\ arch = "arm64" THEN HomebrewPrefix
  ELSE DefaultPath

\* The location the macros of the target select.
LocationForMacros ==
  IF Defines("__APPLE__")
    THEN IF Defines("__x86_64__") THEN UsrLocalPrefix ELSE HomebrewPrefix
    ELSE DefaultPath

---------------------------------------------------------------------------
\* C1: on a supported (operating system, architecture) combination the
\* build succeeds if and only if sybdb.h and sybfront.h are both installed
\* at the location expected for the combination, and fails otherwise; the
\* outcome is a function of the target and the installed files, and a build
\* that has not ended can always take a step.
C1_SucceedsIffInstalled ==
  Supported =>
    /\ status = "ok" => InstalledAt(ExpectedLocation)
    /\ status = "failed" => ~InstalledAt(ExpectedLocation)
    /\ status \notin {"ok", "failed"} => ENABLED Next

C1_Witness ==
  /\ Supported /\ status = "ok" /\ os = "Linux"
  /\ ~InstalledAt(UsrLocalPrefix) /\ ~InstalledAt(HomebrewPrefix)

\* C2: on a target that defines __APPLE__ and __x86_64__, sybdb.h and
\* sybfront.h are taken from /usr/local/opt/freetds/include/ and from no
\* other location.
C2_IntelMacUsesUsrLocal ==
  (Defines("__APPLE__") /\ Defines("__x86_64__")) => OnlyFrom(UsrLocalPrefix)

C2_Witness ==
  /\ os = "macOS" /\ arch = "x86_64" /\ status = "ok"
  /\ included = << << UsrLocalPrefix, "sybdb.h" >>, << UsrLocalPrefix, "sybfront.h" >> >>
  /\ InstalledAt(HomebrewPrefix) /\ InstalledAt(DefaultPath)

\* C3: on Apple Silicon macOS, sybdb.h and sybfront.h are taken from
\* /opt/homebrew/opt/freetds/include/ and from no other location.
C3_AppleSiliconUsesHomebrew ==
  (os = "macOS" /\ arch = "arm64") => OnlyFrom(HomebrewPrefix)

C3_Witness ==
  /\ os = "macOS" /\ arch = "arm64" /\ status = "ok"
  /\ included = << << HomebrewPrefix, "sybdb.h" >>, << HomebrewPrefix, "sybfront.h" >> >>
  /\ InstalledAt(UsrLocalPrefix) /\ InstalledAt(DefaultPath)

\* C4, as stated: on every target whose operating system is not macOS,
\* whatever its architecture, the headers are resolved through the default
\* include path and neither hard-coded prefix is referenced.
C4_NonMacUsesDefaultPath ==
  os # "macOS" => OnlyFrom(DefaultPath)

\* C4, amended: on every target that does not define __APPLE__, whatever
\* its architecture, the headers are resolved through the default include
\* path and neither hard-coded prefix is referenced.
C4_NonAppleUsesDefaultPath ==
  ~Defines("__APPLE__") => OnlyFrom(DefaultPath)

C4_Witness ==
  /\ os = "Linux" /\ arch = "arm64" /\ status = "ok"
  /\ TakenFrom = {DefaultPath}
  /\ InstalledAt(UsrLocalPrefix) /\ InstalledAt(HomebrewPrefix)

\* C5: when the headers are absent at the location selected for the target
\* the build never succeeds, no other location is tried even if the headers
\* are installed there, and a failed build takes no further step.
C5_AbsentHeadersFailWithoutFallback ==
  /\ ~InstalledAt(LocationForMacros) =>
       /\ status # "ok"
       /\ SelectedLocations \subseteq {LocationForMacros}
       /\ TakenFrom \subseteq {LocationForMacros}
  /\ status = "failed" => ~ENABLED Next

C5_Witness ==
  /\ os = "macOS" /\ arch = "x86_64" /\ status = "failed"
  /\ ~InstalledAt(UsrLocalPrefix)
  /\ InstalledAt(HomebrewPrefix) /\ InstalledAt(DefaultPath)

\* C6: apart from its include guard CFREETDS_H the header defines no macro
\* and declares nothing, whichever branch of the platform selection is
\* taken: what it adds to the translation unit is the guard and the files
\* it includes.
C6_DefinesOnlyGuard ==
  /\ ownMacros \subseteq {GuardMacro}
  /\ ownDecls = {}
  /\ macros \subseteq PredefinedMacros(os, arch) \cup {GuardMacro}
  /\ FirstPassOver => ownMacros = {GuardMacro}
  /\ TakenNames \subseteq VendorHeaders

C6_Witness ==
  /\ status = "ok" /\ ownMacros = {GuardMacro} /\ TakenNames = VendorHeaders
  /\ Defines("__APPLE__") /\ Defines("__x86_64__")

\* C7: for every combination of __APPLE__ and __x86_64__ being defined,
\* exactly one of the three locations is selected, and sybdb.h and
\* sybfront.h are both taken from it: never no location, two locations, or
\* the two headers from different locations.
C7_ExactlyOneLocation ==
  /\ Cardinality(SelectedLocations) <= 1
  /\ FirstPassOver => Cardinality(SelectedLocations) = 1
  /\ TakenFrom \subseteq SelectedLocations
  /\ FirstPassDone =>
       /\ TakenFrom = SelectedLocations
       /\ TakenNames = VendorHeaders
       /\ {attempted[i].arg : i \in DOMAIN attempted} = VendorHeaders
       /\ Len(attempted) = 2

C7_Witness ==
  /\ status = "ok" /\ ~Defines("__APPLE__") /\ Defines("__x86_64__")
  /\ Cardinality(SelectedLocations) = 1 /\ Len(included) = 2

\* C8: on a target that defines __APPLE__, the Homebrew prefix
\* /opt/homebrew/opt/freetds/include/ is selected exactly when __x86_64__
\* is not defined, whatever the architecture or Apple operating system, and
\* the default include path is never selected.
C8_AppleNonX86UsesHomebrew ==
  Defines("__APPLE__") =>
    /\ DefaultPath \notin SelectedLocations
    /\ FirstPassOver =>
         (SelectedLocations = {HomebrewPrefix} <=> ~Defines("__x86_64__"))
    /\ HomebrewPrefix \in SelectedLocations => ~Defines("__x86_64__")

C8_Witness ==
  /\ os = "iOS" /\ arch = "i386" /\ status = "ok"
  /\ SelectedLocations = {HomebrewPrefix}
  /\ InstalledAt(DefaultPath)

\* C9: once the first inclusion of the header is complete, further
\* inclusions select no location, include neither vendor header again and
\* define nothing: n >= 1 inclusions leave what one inclusion leaves.
C9_InclusionIdempotent ==
  [][(count >= 2 \/ FirstPassDone) =>
       /\ included' = included
       /\ attempted' = attempted
       /\ macros' = macros
       /\ ownMacros' = ownMacros
       /\ ownDecls' = ownDecls
       /\ status' # "failed"]_vars

C9_Witness ==
  /\ count = 2 /\ status = "scanning" /\ pc = Len(Header) /\ ~pragmaOnce
  /\ Len(included) = 2

====
